---- MODULE Spec2Model ----
(***************************************************************************)
(* Avatar Processing Service templates (src/template.js and                *)
(* src/go/template.go).  Both templates declare the service, the job       *)
(* record and an example main; every service method body is a TODO that    *)
(* returns nothing (JavaScript: undefined) or the zero values (Go: nil,    *)
(* nil and "").  The model runs one of the two templates, chosen in Init.  *)
(***************************************************************************)
EXTENDS Integers, Sequences, FiniteSets, TLC

\* ------------------------------------------------------------------ bounds
MaxJobs == 1
MaxClock == 2
MaxHistory == 2

\* ------------------------------------------------------------- input sets
UserIds == {"", "user123"}
Prompts == {"", "A friendly robot avatar with blue eyes"}
JobIds == {"job-1", "job-2"}
Statuses == {"pending", "completed", "failed", "rejected"}
TerminalStatuses == {"completed", "failed", "rejected"}
Urls == {"https://avatars.example.com/job-1.png"}
Messages == {"Contains inappropriate content"}
ModerationOutcomes == {"approved", "rejected", "timeout", "http_error"}
ModerationFailures == {"timeout", "http_error"}
RejectReason == "Contains inappropriate content"

\* ----------------------------------------------------------------- values
\* A value of either language: undefined (JS), null/nil, a string, or a
\* reference to an AvatarJob object held in jobs.
Undefined == [kind |-> "undefined"]
Null == [kind |-> "null"]
Str(s) == [kind |-> "string", str |-> s]
Obj(j) == [kind |-> "object", job |-> j]
NoError == "none"
\* absent optional field of a job (JS null default, Go nil pointer)
Absent == "<absent>"
\* createdAt argument left out (JS default null)
NoDate == 0

VARIABLES lang, moderation, service, requests, jobs, clock, last, submitted,
          mainPc, mainJob, mainRetrieved

vars == <<lang, moderation, service, requests, jobs, clock, last, submitted,
          mainPc, mainJob, mainRetrieved>>

\* ------------------------------------------------------------- job record
\* JS: constructor(id, userId, status, inputData, outputUrl = null,
\*                 createdAt = null, errorMessage = null)
AvatarJob(id, userId, status, inputData, outputUrl, createdAt, errorMessage, now) ==
    [id |-> id, userId |-> userId, status |-> status, inputData |-> inputData,
     outputUrl |-> outputUrl,
     createdAt |-> IF createdAt # NoDate THEN createdAt ELSE now,
     errorMessage |-> errorMessage]

\* Go: NewAvatarJob(id, userID, status, inputData); OutputURL and
\* ErrorMessage keep their zero value nil, CreatedAt is time.Now()
NewAvatarJob(id, userID, status, inputData, now) ==
    [id |-> id, userId |-> userID, status |-> status, inputData |-> inputData,
     outputUrl |-> Absent, createdAt |-> now, errorMessage |-> Absent]

\* ---------------------------------------------------------------- service
\* JS constructor / Go NewAvatarProcessingService: two fields, no storage
NewAvatarProcessingService(moderationAPIURL, apiToken) ==
    [moderationApiUrl |-> moderationAPIURL, apiToken |-> apiToken]

\* JS: async submitJob(userId, inputData) { /* TODO */ }  -> undefined
submitJob(userId, inputData) == [ret |-> Undefined, err |-> NoError]

\* Go: SubmitJob(userID, inputData) returns nil, nil
SubmitJob(userID, inputData) == [ret |-> Null, err |-> NoError]

\* a lookup that hands out a job record as soon as one exists, whatever
\* its status
getJobStatus_visibleEarly(jobId) ==
    [ret |-> IF Len(jobs) > 0 THEN Obj(1) ELSE Undefined, err |-> NoError]

\* a lookup that answers every id with a half-built job object
getJobStatus_partial(jobId) == [ret |-> Obj(0), err |-> NoError]

\* JS: getJobStatus(jobId) { /* TODO */ }  -> undefined
getJobStatus(jobId) == [ret |-> Undefined, err |-> NoError]

\* Go: GetJobStatus(jobID) returns nil, nil
GetJobStatus(jobID) == [ret |-> Null, err |-> NoError]

\* JS: async callModerationApi(content, userId) { /* TODO */ } -> undefined
callModerationApi(content, userId) == [ret |-> Undefined, err |-> NoError]

\* Go: CallModerationAPI(content, userID) returns nil, nil
CallModerationAPI(content, userID) == [ret |-> Null, err |-> NoError]

\* JS: _generateMockAvatarUrl(prompt) { /* TODO */ } -> undefined
generateMockAvatarUrl(prompt) == [ret |-> Undefined, err |-> NoError]

\* Go: generateMockAvatarURL(prompt) returns ""
generateMockAvatarURL(prompt) == [ret |-> Str(""), err |-> NoError]

\* the test main applies to a retrieved job: JS `retrievedJob ? ... :
\* 'Not found'`, Go `retrievedJob != nil` else "Job not found"
IsNotFound(v) == v.kind \in {"undefined", "null"}

Remember(r) == IF Len(submitted) < MaxHistory THEN Append(submitted, r) ELSE submitted

\* ------------------------------------------------------------------- Init
Init ==
    /\ lang \in {"js", "go"}
    /\ moderation \in ModerationOutcomes
    /\ service = NewAvatarProcessingService("https://api.example.com", "your-api-token-here")
    /\ requests = 0
    /\ jobs = <<>>
    /\ clock = 1
    /\ last = [op |-> "new", args |-> <<>>, ret |-> Undefined, err |-> NoError]
    /\ submitted = <<>>
    /\ mainPc = "start"
    /\ mainJob = Undefined
    /\ mainRetrieved = Undefined

\* ---------------------------------------------------------------- actions
Tick ==
    /\ clock < MaxClock
    /\ clock' = clock + 1
    /\ UNCHANGED <<lang, moderation, service, requests, jobs, last, submitted,
                   mainPc, mainJob, mainRetrieved>>

JsSubmitJob ==
    /\ lang = "js"
    /\ \E userId \in UserIds, inputData \in Prompts :
         LET r == submitJob(userId, inputData) IN
         /\ last' = [op |-> "submit", args |-> <<userId, inputData>>,
                     ret |-> r.ret, err |-> r.err]
         /\ submitted' = IF userId # "" /\ inputData # "" /\ r.err = NoError
                         THEN Remember(r.ret) ELSE submitted
    /\ UNCHANGED <<lang, moderation, service, requests, jobs, clock,
                   mainPc, mainJob, mainRetrieved>>

GoSubmitJob ==
    /\ lang = "go"
    /\ \E userID \in UserIds, inputData \in Prompts :
         LET r == SubmitJob(userID, inputData) IN
         /\ last' = [op |-> "submit", args |-> <<userID, inputData>>,
                     ret |-> r.ret, err |-> r.err]
         /\ submitted' = IF userID # "" /\ inputData # "" /\ r.err = NoError
                         THEN Remember(r.ret) ELSE submitted
    /\ UNCHANGED <<lang, moderation, service, requests, jobs, clock,
                   mainPc, mainJob, mainRetrieved>>

JsGetJobStatus ==
    /\ lang = "js"
    /\ \E jobId \in JobIds :
         LET r == getJobStatus(jobId) IN
         last' = [op |-> "getStatus", args |-> <<jobId>>, ret |-> r.ret, err |-> r.err]
    /\ UNCHANGED <<lang, moderation, service, requests, jobs, clock, submitted,
                   mainPc, mainJob, mainRetrieved>>

GoGetJobStatus ==
    /\ lang = "go"
    /\ \E jobID \in JobIds :
         LET r == GetJobStatus(jobID) IN
         last' = [op |-> "getStatus", args |-> <<jobID>>, ret |-> r.ret, err |-> r.err]
    /\ UNCHANGED <<lang, moderation, service, requests, jobs, clock, submitted,
                   mainPc, mainJob, mainRetrieved>>

JsCallModerationApi ==
    /\ lang = "js"
    /\ \E content \in Prompts, userId \in UserIds :
         LET r == callModerationApi(content, userId) IN
         last' = [op |-> "moderate", args |-> <<content, userId>>,
                  ret |-> r.ret, err |-> r.err]
    /\ UNCHANGED <<lang, moderation, service, requests, jobs, clock, submitted,
                   mainPc, mainJob, mainRetrieved>>

GoCallModerationAPI ==
    /\ lang = "go"
    /\ \E content \in Prompts, userID \in UserIds :
         LET r == CallModerationAPI(content, userID) IN
         last' = [op |-> "moderate", args |-> <<content, userID>>,
                  ret |-> r.ret, err |-> r.err]
    /\ UNCHANGED <<lang, moderation, service, requests, jobs, clock, submitted,
                   mainPc, mainJob, mainRetrieved>>

JsGenerateMockAvatarUrl ==
    /\ lang = "js"
    /\ \E prompt \in Prompts :
         LET r == generateMockAvatarUrl(prompt) IN
         last' = [op |-> "generate", args |-> <<prompt>>, ret |-> r.ret, err |-> r.err]
    /\ UNCHANGED <<lang, moderation, service, requests, jobs, clock, submitted,
                   mainPc, mainJob, mainRetrieved>>

GoGenerateMockAvatarURL ==
    /\ lang = "go"
    /\ \E prompt \in Prompts :
         LET r == generateMockAvatarURL(prompt) IN
         last' = [op |-> "generate", args |-> <<prompt>>, ret |-> r.ret, err |-> r.err]
    /\ UNCHANGED <<lang, moderation, service, requests, jobs, clock, submitted,
                   mainPc, mainJob, mainRetrieved>>

\* a caller of the exported class: new AvatarJob(...)
JsNewAvatarJob ==
    /\ lang = "js"
    /\ Len(jobs) < MaxJobs
    /\ \E id \in {"job-1"}, userId \in {"user123"}, status \in Statuses,
          inputData \in {"A friendly robot avatar with blue eyes"},
          outputUrl \in Urls \cup {Absent}, createdAt \in {NoDate, 1},
          errorMessage \in Messages \cup {Absent} :
         LET j == AvatarJob(id, userId, status, inputData, outputUrl, createdAt,
                            errorMessage, clock) IN
         /\ jobs' = Append(jobs, j)
         /\ last' = [op |-> "newJob", args |-> <<id>>,
                     ret |-> Obj(Len(jobs) + 1), err |-> NoError]
    /\ UNCHANGED <<lang, moderation, service, requests, clock, submitted,
                   mainPc, mainJob, mainRetrieved>>

GoNewAvatarJob ==
    /\ lang = "go"
    /\ Len(jobs) < MaxJobs
    /\ \E id \in {"job-1"}, userID \in {"user123"}, status \in Statuses,
          inputData \in {"A friendly robot avatar with blue eyes"} :
         LET j == NewAvatarJob(id, userID, status, inputData, clock) IN
         /\ jobs' = Append(jobs, j)
         /\ last' = [op |-> "newJob", args |-> <<id>>,
                     ret |-> Obj(Len(jobs) + 1), err |-> NoError]
    /\ UNCHANGED <<lang, moderation, service, requests, clock, submitted,
                   mainPc, mainJob, mainRetrieved>>

\* main, up to the (awaited) submit: JS lines 128-134, Go lines 179-188
JsMainSubmit ==
    /\ lang = "js"
    /\ mainPc = "start"
    /\ LET r == submitJob("user123", "A friendly robot avatar with blue eyes") IN
         /\ mainJob' = r.ret
         /\ mainPc' = IF r.err = NoError THEN "submitted" ELSE "crashed"
         /\ submitted' = IF r.err = NoError THEN Remember(r.ret) ELSE submitted
    /\ UNCHANGED <<lang, moderation, service, requests, jobs, clock, last, mainRetrieved>>

GoMainSubmit ==
    /\ lang = "go"
    /\ mainPc = "start"
    /\ LET r == SubmitJob("user123", "A friendly robot avatar with blue eyes") IN
         /\ mainJob' = r.ret
         /\ mainPc' = IF r.err = NoError THEN "submitted" ELSE "crashed"
         /\ submitted' = IF r.err = NoError THEN Remember(r.ret) ELSE submitted
    /\ UNCHANGED <<lang, moderation, service, requests, jobs, clock, last, mainRetrieved>>

\* main, the rest: it reads job.id (a TypeError on undefined, caught by
\* main().catch) and then looks the job up
JsMainCheck ==
    /\ lang = "js"
    /\ mainPc = "submitted"
    /\ IF mainJob.kind # "object"
       THEN /\ mainPc' = "crashed"
            /\ UNCHANGED mainRetrieved
       ELSE LET r == getJobStatus(jobs[mainJob.job].id) IN
            /\ mainRetrieved' = r.ret
            /\ mainPc' = "done"
    /\ UNCHANGED <<lang, moderation, service, requests, jobs, clock, last, submitted, mainJob>>

\* Go: job.ID on a nil *AvatarJob panics (nil pointer dereference)
GoMainCheck ==
    /\ lang = "go"
    /\ mainPc = "submitted"
    /\ IF mainJob.kind # "object"
       THEN /\ mainPc' = "crashed"
            /\ UNCHANGED mainRetrieved
       ELSE LET r == GetJobStatus(jobs[mainJob.job].id) IN
            /\ mainRetrieved' = r.ret
            /\ mainPc' = IF r.err = NoError THEN "done" ELSE "crashed"
    /\ UNCHANGED <<lang, moderation, service, requests, jobs, clock, last, submitted, mainJob>>

Next ==
    \/ Tick
    \/ JsSubmitJob \/ GoSubmitJob
    \/ JsGetJobStatus \/ GoGetJobStatus
    \/ JsCallModerationApi \/ GoCallModerationAPI
    \/ JsGenerateMockAvatarUrl \/ GoGenerateMockAvatarURL
    \/ JsNewAvatarJob \/ GoNewAvatarJob
    \/ JsMainSubmit \/ GoMainSubmit
    \/ JsMainCheck \/ GoMainCheck

Spec == Init /\ [][Next]_vars

TypeOK ==
    /\ lang \in {"js", "go"}
    /\ moderation \in ModerationOutcomes
    /\ requests \in Nat
    /\ Len(jobs) <= MaxJobs
    /\ clock \in 1..MaxClock
    /\ mainPc \in {"start", "submitted", "crashed", "done"}

\* ------------------------------------------------------------ observations
\* the job a value refers to
JobOf(v) == jobs[v.job]
IsJob(v) == v.kind = "object" /\ v.job \in 1..Len(jobs)
Present(f) == f # Absent /\ f # ""
\* a reference "containing" the id: some prefix, the id, some suffix
UrlPrefixes == {"", "https://avatars.example.com/", "https://avatars.example.com/avatar_"}
UrlSuffixes == {"", ".png"}
ContainsId(url, id) == \E pre \in UrlPrefixes, suf \in UrlSuffixes : url = pre \o id \o suf
ValidSubmit(c) == c.op = "submit" /\ c.args[1] # "" /\ c.args[2] # ""
\* the lookup of the running template
Lookup(id) == IF lang = "js" THEN getJobStatus(id) ELSE GetJobStatus(id)
\* ids of the jobs that submit calls have handed out
StoredIds == {JobOf(submitted[i]).id : i \in {k \in 1..Len(submitted) : IsJob(submitted[k])}}

\* C1: a submit with non-empty arguments, with the moderation endpoint
\* answering approved=true, returns a Job with status completed, a non-empty
\* outputRef containing the job's id, and no errorMessage.
C1_ApprovedCompletes ==
    (ValidSubmit(last) /\ moderation = "approved") =>
        /\ last.err = NoError
        /\ IsJob(last.ret)
        /\ JobOf(last.ret).status = "completed"
        /\ Present(JobOf(last.ret).outputUrl)
        /\ ContainsId(JobOf(last.ret).outputUrl, JobOf(last.ret).id)
        /\ JobOf(last.ret).errorMessage = Absent

\* C2: a submit with non-empty arguments, with the moderation endpoint
\* answering approved=false and a reason, returns a Job with status rejected
\* that keeps its outputRef and whose errorMessage is the reason.
C2_RejectedKeepsReason ==
    (ValidSubmit(last) /\ moderation = "rejected") =>
        /\ last.err = NoError
        /\ IsJob(last.ret)
        /\ JobOf(last.ret).status = "rejected"
        /\ Present(JobOf(last.ret).outputUrl)
        /\ JobOf(last.ret).errorMessage = RejectReason

\* C3: a submit with non-empty arguments whose moderation call fails still
\* returns normally, with a Job whose status is failed and whose
\* errorMessage is non-empty.
C3_FailureAbsorbed ==
    (ValidSubmit(last) /\ moderation \in ModerationFailures) =>
        /\ last.err = NoError
        /\ IsJob(last.ret)
        /\ JobOf(last.ret).status = "failed"
        /\ Present(JobOf(last.ret).errorMessage)

\* C4: every Job a submit has returned is found again by getStatus on its
\* id, equal in every field; main, which does exactly that, runs through.
C4_StatusRoundTrip ==
    /\ \A i \in 1..Len(submitted) :
         /\ IsJob(submitted[i])
         /\ Lookup(JobOf(submitted[i]).id).err = NoError
         /\ IsJob(Lookup(JobOf(submitted[i]).id).ret)
         /\ JobOf(Lookup(JobOf(submitted[i]).id).ret) = JobOf(submitted[i])
    /\ mainPc # "crashed"
    /\ mainPc = "done" => IsJob(mainRetrieved) /\ JobOf(mainRetrieved) = JobOf(mainJob)

\* C5: a submit with an empty userId or an empty inputData fails with
\* InvalidArgument and creates nothing: no job, no stored state, no
\* moderation request.
C5_InvalidArgument ==
    [][(last' # last /\ last'.op = "submit" /\ ~ValidSubmit(last')) =>
          /\ last'.err = "InvalidArgument"
          /\ ~IsJob(last'.ret)
          /\ service' = service /\ jobs' = jobs /\ submitted' = submitted
          /\ requests' = requests]_vars

\* C6: getStatus for an id that no submit has stored signals not-found
\* (a null/undefined job, no error), never hands out a job object, and
\* changes nothing of the service, the jobs or the requests sent.
C6_UnknownIdNotFound ==
    [][(last' # last /\ last'.op = "getStatus" /\ last'.args[1] \notin StoredIds) =>
          /\ IsNotFound(last'.ret)
          /\ last'.ret.kind # "object"
          /\ last'.err = NoError
          /\ service' = service /\ jobs' = jobs /\ submitted' = submitted
          /\ requests' = requests]_vars

C6_Witness ==
    /\ last.op = "getStatus"
    /\ last.args[1] \notin StoredIds
    /\ IsNotFound(last.ret)
    /\ Len(submitted) > 0

\* C7: the values successful submit calls return are Jobs whose ids are
\* pairwise different.
C7_UniqueIds ==
    /\ \A i \in 1..Len(submitted) : IsJob(submitted[i])
    /\ \A i, k \in 1..Len(submitted) :
         i < k => JobOf(submitted[i]).id # JobOf(submitted[k]).id

\* C8: a Job starts as pending and moves once, to completed, rejected or
\* failed; a submit hands back a Job that has made that move, and no later
\* step changes a status that is already terminal.
C8_StatusForward ==
    [][/\ \A k \in 1..Len(jobs') : k > Len(jobs) => jobs'[k].status = "pending"
       /\ \A k \in 1..Len(jobs) :
            jobs'[k].status # jobs[k].status =>
                jobs[k].status = "pending" /\ jobs'[k].status \in TerminalStatuses
       /\ (last' # last /\ ValidSubmit(last')) =>
            IsJob(last'.ret) /\ jobs'[last'.ret.job].status \in TerminalStatuses]_vars

\* C9: every Job has an errorMessage exactly when its status is failed.
C9_ErrorMessageIffFailed ==
    \A k \in 1..Len(jobs) :
        (jobs[k].errorMessage # Absent) <=> (jobs[k].status = "failed")

\* C10: every Job has an outputRef exactly when its status is completed or
\* rejected.
C10_OutputRefIffGenerated ==
    \A k \in 1..Len(jobs) :
        (jobs[k].outputUrl # Absent) <=> (jobs[k].status \in {"completed", "rejected"})

====
